---- MODULE Spec2Model ----
(***************************************************************************)
(* Model of the contact-intake form component `App` of src/tel.js.         *)
(*                                                                         *)
(* The React state cells are the variables name .. statusType.  Each       *)
(* asynchronous function is cut at its `await`s: the synchronous part of   *)
(* handleSubmit (up to the await of saveContactToFirestore), the           *)
(* settlement of the setDoc promise, the settlement of the fetch promise   *)
(* and the resumption of handleSubmit after predictCountryOfOrigin are     *)
(* one action each.  Every run of handleSubmit that passes validation is   *)
(* an entry of `flows`, so that re-entrant runs can be represented.        *)
(*                                                                         *)
(* Strings that the code inspects character by character (name,            *)
(* phoneNumber) are sequences of one-character strings.  Every other       *)
(* nullable value is a string, with NULL standing for JavaScript's null.   *)
(***************************************************************************)
EXTENDS Integers, Sequences, FiniteSets, TLC

VARIABLES
  name, phoneNumber, submittedData, isSubmitting,   \* tel.js:21-24
  db, userId, isAuthReady,                          \* tel.js:27-29
  prediction, isPredicting, statusMessage, statusType, \* tel.js:32-35
  initialAuthToken,                                 \* tel.js:18
  phase,            \* position of the mount effect (tel.js:38-80)
  authUser,         \* the identity service's current user
  pendingSignIn,    \* sign-in requests issued by authenticate(), unsettled
  anonCount,        \* anonymous identities handed out so far
  signOuts,         \* identity losses reported by the service so far
  signInFailed,     \* history: a sign-in attempt of authenticate() failed
  flows,            \* the runs of handleSubmit that passed validation; a
                    \* run's fetch (tel.js:106) is issued iff predict # "none"
  setDocCalls,      \* history: the setDoc requests issued (tel.js:152)
  store,            \* the documents the store holds
  submitCount,      \* history: submit events handled by handleSubmit
  dispatched,       \* history: those of them not raised by the submit button
  probe,            \* a string handed to validatePhoneNumber on its own
  verdict           \* what validatePhoneNumber answered for it

progVars == <<name, phoneNumber, submittedData, isSubmitting, db, userId,
              isAuthReady, prediction, isPredicting, statusMessage, statusType>>
authVars == <<initialAuthToken, phase, authUser, pendingSignIn, anonCount,
              signOuts, signInFailed>>
histVars == <<flows, setDocCalls, store, submitCount, dispatched>>
pureVars == <<probe, verdict>>
vars == <<progVars, authVars, histVars, pureVars>>

----------------------------------------------------------------------------
(* Bounds *)

MaxSubmits == 2      \* submit events per behaviour
MaxSignOuts == 1     \* identity losses per behaviour
MaxDispatch == 1     \* submit events not raised by the submit button
MaxProbeLen == 16    \* length of the strings validatePhoneNumber is probed with

(* Program constants *)

MinPhoneDigits == 7
MaxPhoneDigits == 15
PhoneMaxLength == 15

NULL == "null"

Digits == {"0", "1", "2", "3", "4", "5", "6", "7", "8", "9"}
WhiteSpace == {" ", "\t", "\n"}

NullData == [name |-> <<>>, phoneNumber |-> <<>>, docId |-> NULL]

FallbackText == "Could not determine country of origin."

----------------------------------------------------------------------------
(* Pure functions *)

RECURSIVE Rep(_, _)
Rep(c, n) == IF n = 0 THEN <<>> ELSE <<c>> \o Rep(c, n - 1)

RECURSIVE trimStart(_)
trimStart(s) ==
  IF s = <<>> THEN <<>>
  ELSE IF Head(s) \in WhiteSpace THEN trimStart(Tail(s)) ELSE s

RECURSIVE trimEnd(_)
trimEnd(s) ==
  IF s = <<>> THEN <<>>
  ELSE IF s[Len(s)] \in WhiteSpace THEN trimEnd(SubSeq(s, 1, Len(s) - 1)) ELSE s

\* String.prototype.trim
trim(s) == trimEnd(trimStart(s))

\* value.replace(/\D/g, '')
RECURSIVE stripNonDigits(_)
stripNonDigits(s) ==
  IF s = <<>> THEN <<>>
  ELSE IF Head(s) \in Digits THEN <<Head(s)>> \o stripNonDigits(Tail(s))
       ELSE stripNonDigits(Tail(s))

\* mutant: the quantifier has no upper bound, /^\d{7,}$/
validatePhoneNumber_NoUpperBound(number) ==
  /\ Len(number) >= MinPhoneDigits
  /\ \A k \in 1..Len(number) : number[k] \in Digits

\* mutant: the lower bound is off by one
validatePhoneNumber_OffByOne(number) ==
  /\ Len(number) >= MinPhoneDigits - 1
  /\ Len(number) <= MaxPhoneDigits
  /\ \A k \in 1..Len(number) : number[k] \in Digits

\* /^\d{7,15}$/.test(number)
validatePhoneNumber(number) ==
  /\ Len(number) >= MinPhoneDigits
  /\ Len(number) <= MaxPhoneDigits
  /\ \A k \in 1..Len(number) : number[k] \in Digits

----------------------------------------------------------------------------
(* Inputs *)

\* what can be typed into the name input: nothing, a blank, a padded name
NameInputs == { <<>>, <<" ">>, <<" ", "J", " ">> }

\* what can be typed into the phone input: nothing, a number one digit too
\* short, a valid number written with a leading "+", and a text whose digits
\* alone are too few
PhoneInputs ==
  { <<>>,
    Rep("4", MinPhoneDigits - 1),
    <<"+">> \o Rep("4", MinPhoneDigits),
    Rep("4", MinPhoneDigits - 1) \o <<"a">> }

\* the strings validatePhoneNumber is probed with: every string of a digit
\* and a non-digit up to MaxProbeLen characters
ProbeAlphabet == {"7", "x"}

ProbeStrings == UNION {[1..n -> ProbeAlphabet] : n \in 0..MaxProbeLen}

\* what the inference endpoint can answer: a network failure (net false), a
\* non-2xx status (ok false), a 2xx body that response.json() cannot parse
\* (json false), or a 2xx JSON body whose first candidate text is present,
\* empty or absent
Responses ==
  { [net |-> FALSE, ok |-> FALSE, json |-> FALSE, text |-> NULL],
    [net |-> TRUE,  ok |-> FALSE, json |-> FALSE, text |-> NULL],
    [net |-> TRUE,  ok |-> TRUE,  json |-> FALSE, text |-> NULL],
    [net |-> TRUE,  ok |-> TRUE,  json |-> TRUE,  text |-> "France"],
    [net |-> TRUE,  ok |-> TRUE,  json |-> TRUE,  text |-> ""],
    [net |-> TRUE,  ok |-> TRUE,  json |-> TRUE,  text |-> NULL] }

\* the response field of a run outside predictCountryOfOrigin's handling of
\* its response (`response` and `result` are locals of that call, tel.js:106-116)
NoResponse == [net |-> FALSE, ok |-> FALSE, json |-> FALSE, text |-> "none"]

PersistedUid == "uid-persisted"
TokenUid == "uid-token"
AnonUid(n) == "uid-anon-" \o ToString(n)

----------------------------------------------------------------------------
Init ==
  /\ name = <<>> /\ phoneNumber = <<>>
  /\ submittedData = NullData
  /\ isSubmitting = FALSE
  /\ db = NULL /\ userId = NULL /\ isAuthReady = FALSE
  /\ prediction = NULL /\ isPredicting = FALSE
  /\ statusMessage = NULL /\ statusType = NULL
  /\ initialAuthToken \in {NULL, "token"}
  /\ phase = "unmounted"
  /\ authUser = NULL
  /\ pendingSignIn = 0 /\ anonCount = 0 /\ signOuts = 0
  /\ signInFailed = FALSE
  /\ flows = <<>> /\ setDocCalls = <<>>
  /\ store = {}
  /\ submitCount = 0
  /\ dispatched = 0
  /\ probe = <<>>
  /\ verdict = "none"

----------------------------------------------------------------------------
(* Session bootstrap: the mount effect, tel.js:38-80 *)

\* the body of the try block up to the subscription.  `outcome` is where the
\* platform client throws, if it does: before setDb (initializeApp, getAuth,
\* getFirestore), after it (onAuthStateChanged), or nowhere.
Mount(outcome) ==
  /\ phase = "unmounted"
  /\ db' = IF outcome = "throwBeforeSetDb" THEN db ELSE "firestore"
  /\ IF outcome = "ok"
       THEN /\ phase' = "subscribed"
            /\ UNCHANGED <<statusMessage, statusType, isAuthReady>>
       ELSE /\ phase' = "initFailed"
            /\ statusMessage' = "Firebase failed to initialize. Check console."
            /\ statusType' = "error"
            /\ isAuthReady' = TRUE
  /\ UNCHANGED <<name, phoneNumber, submittedData, isSubmitting, userId,
                 prediction, isPredicting>>
  /\ UNCHANGED <<initialAuthToken, authUser, pendingSignIn, anonCount,
                 signOuts, signInFailed>>
  /\ UNCHANGED <<histVars, pureVars>>

\* mutant: a notification with no user marks the session ready
authListener_ReadyWithoutUser(user, pending) ==
  IF user # NULL
    THEN /\ userId' = user
         /\ isAuthReady' = TRUE
         /\ pendingSignIn' = pending
    ELSE /\ pendingSignIn' = pending + 1
         /\ isAuthReady' = TRUE
         /\ UNCHANGED userId

\* mutant: a notification with no user clears the identity
authListener_ClearsIdentity(user, pending) ==
  IF user # NULL
    THEN /\ userId' = user
         /\ isAuthReady' = TRUE
         /\ pendingSignIn' = pending
    ELSE /\ pendingSignIn' = pending + 1
         /\ userId' = NULL
         /\ UNCHANGED isAuthReady

\* the callback passed to onAuthStateChanged, tel.js:62-71; with no user it
\* calls authenticate(), which issues one sign-in request (tel.js:49-53)
\* `pending` is the number of unsettled sign-in requests when it is called.
authListener(user, pending) ==
  IF user # NULL
    THEN /\ userId' = user
         /\ isAuthReady' = TRUE
         /\ pendingSignIn' = pending
    ELSE /\ pendingSignIn' = pending + 1
         /\ UNCHANGED <<userId, isAuthReady>>

\* the first notification after subscribing: the user the identity service
\* has kept from an earlier visit, or none
InitialAuthState(user) ==
  /\ phase = "subscribed"
  /\ phase' = "listening"
  /\ authUser' = user
  /\ authListener(user, pendingSignIn)
  /\ UNCHANGED <<name, phoneNumber, submittedData, isSubmitting, db,
                 prediction, isPredicting, statusMessage, statusType>>
  /\ UNCHANGED <<initialAuthToken, anonCount, signOuts, signInFailed>>
  /\ UNCHANGED <<histVars, pureVars>>

\* signInWithCustomToken / signInAnonymously resolves (tel.js:50, 52): the
\* service has a user and notifies the listener
SignInResolve ==
  /\ pendingSignIn > 0
  /\ LET uid == IF initialAuthToken # NULL THEN TokenUid
                ELSE AnonUid(anonCount + 1)
     IN /\ authUser' = uid
        /\ authListener(uid, pendingSignIn - 1)
  /\ anonCount' = IF initialAuthToken # NULL THEN anonCount ELSE anonCount + 1
  /\ UNCHANGED <<name, phoneNumber, submittedData, isSubmitting, db,
                 prediction, isPredicting, statusMessage, statusType>>
  /\ UNCHANGED <<initialAuthToken, phase, signOuts, signInFailed>>
  /\ UNCHANGED <<histVars, pureVars>>

\* the sign-in request rejects: the catch of authenticate, tel.js:54-58
SignInReject ==
  /\ pendingSignIn > 0
  /\ pendingSignIn' = pendingSignIn - 1
  /\ statusMessage' = "Authentication failed. Check console for details."
  /\ statusType' = "error"
  /\ signInFailed' = TRUE
  /\ UNCHANGED <<name, phoneNumber, submittedData, isSubmitting, db, userId,
                 isAuthReady, prediction, isPredicting>>
  /\ UNCHANGED <<initialAuthToken, phase, authUser, anonCount, signOuts>>
  /\ UNCHANGED <<histVars, pureVars>>

\* the identity service loses its user (sign-out, revoked or expired
\* credential) and notifies the listener with no user
SignedOut ==
  /\ phase = "listening"
  /\ authUser # NULL
  /\ signOuts < MaxSignOuts
  /\ signOuts' = signOuts + 1
  /\ authUser' = NULL
  /\ authListener(NULL, pendingSignIn)
  /\ UNCHANGED <<name, phoneNumber, submittedData, isSubmitting, db,
                 prediction, isPredicting, statusMessage, statusType>>
  /\ UNCHANGED <<initialAuthToken, phase, anonCount, signInFailed>>
  /\ UNCHANGED <<histVars, pureVars>>

----------------------------------------------------------------------------
(* Form controls *)

\* disabled attribute of the two inputs, tel.js:242
inputDisabled == isSubmitting \/ isPredicting

\* mutant: the button ignores isSubmitting
submitDisabled_IgnoresSubmitting == isPredicting \/ ~isAuthReady

\* disabled attribute of the submit button, tel.js:347
submitDisabled == isSubmitting \/ isPredicting \/ ~isAuthReady

\* onChange of the name input, tel.js:331
ChangeName(value) ==
  /\ ~inputDisabled
  /\ name' = value
  /\ UNCHANGED <<phoneNumber, submittedData, isSubmitting, db, userId,
                 isAuthReady, prediction, isPredicting, statusMessage,
                 statusType>>
  /\ UNCHANGED <<authVars, histVars, pureVars>>

\* mutant: the typed value is stored as it is
ChangePhone_NoStrip(value) ==
  /\ ~inputDisabled
  /\ Len(value) <= PhoneMaxLength
  /\ phoneNumber' = value
  /\ UNCHANGED <<name, submittedData, isSubmitting, db, userId,
                 isAuthReady, prediction, isPredicting, statusMessage,
                 statusType>>
  /\ UNCHANGED <<authVars, histVars, pureVars>>

\* onChange of the phone input, tel.js:339; the input takes at most
\* maxLength characters (tel.js:342)
ChangePhone(value) ==
  /\ ~inputDisabled
  /\ Len(value) <= PhoneMaxLength
  /\ phoneNumber' = stripNonDigits(value)
  /\ UNCHANGED <<name, submittedData, isSubmitting, db, userId,
                 isAuthReady, prediction, isPredicting, statusMessage,
                 statusType>>
  /\ UNCHANGED <<authVars, histVars, pureVars>>

----------------------------------------------------------------------------
(* Submission: handleSubmit, saveContactToFirestore, predictCountryOfOrigin *)

\* mutant: the guard forgets the identity
saveRefused_NoIdentityCheck == db = NULL

\* the guard of saveContactToFirestore, tel.js:137
saveRefused == db = NULL \/ userId = NULL

\* mutant: the name is not checked
inputInvalid_NoNameCheck == ~validatePhoneNumber(phoneNumber)

\* the validation of handleSubmit, tel.js:189
inputInvalid == trim(name) = <<>> \/ ~validatePhoneNumber(phoneNumber)

\* mutant: the display is reset only by a submission that is accepted
resetDisplay_OnlyWhenAccepted ==
  IF ~isAuthReady \/ inputInvalid
    THEN UNCHANGED <<submittedData, prediction>>
    ELSE submittedData' = NullData /\ prediction' = NULL

\* the first statements of handleSubmit, tel.js:178-179
resetDisplay ==
  /\ submittedData' = NullData
  /\ prediction' = NULL

\* handleSubmit up to its first await, tel.js:177-206, with the synchronous
\* part of saveContactToFirestore (tel.js:137-152) that it calls
handleSubmit ==
  /\ submitCount' = submitCount + 1
  /\ resetDisplay
  /\ IF ~isAuthReady THEN
       /\ statusMessage' = "Authentication is not ready. Please wait a moment."
       /\ statusType' = "info"
       /\ UNCHANGED <<isSubmitting, flows, setDocCalls>>
     ELSE IF inputInvalid THEN
       /\ statusMessage' =
            "Please enter a valid name and phone number (7-15 digits only)."
       /\ statusType' = "error"
       /\ UNCHANGED <<isSubmitting, flows, setDocCalls>>
     ELSE
       LET contactData == [name |-> trim(name), phoneNumber |-> phoneNumber]
           id == "doc-" \o ToString(Len(flows) + 1)
       IN /\ isSubmitting' = TRUE
          /\ statusMessage' = "Saving contact data to Firestore..."
          /\ statusType' = "info"
          /\ IF saveRefused
               THEN /\ flows' = Append(flows,
                         [pc |-> "awaitSave", write |-> "refused",
                          predict |-> "none", name |-> contactData.name,
                          phoneNumber |-> contactData.phoneNumber,
                          docId |-> NULL, fetches |-> 0, query |-> <<>>,
                          response |-> NoResponse])
                    /\ UNCHANGED setDocCalls
               ELSE /\ flows' = Append(flows,
                         [pc |-> "awaitSave", write |-> "pending",
                          predict |-> "none", name |-> contactData.name,
                          phoneNumber |-> contactData.phoneNumber,
                          docId |-> id, fetches |-> 0, query |-> <<>>,
                          response |-> NoResponse])
                    /\ setDocCalls' = Append(setDocCalls,
                         [name |-> contactData.name,
                          phoneNumber |-> contactData.phoneNumber,
                          userId |-> userId, db |-> db, docId |-> id,
                          flow |-> Len(flows) + 1])
  /\ UNCHANGED <<name, phoneNumber, db, userId, isAuthReady, isPredicting>>
  /\ UNCHANGED <<authVars, store, pureVars>>
  \* dispatched is set by the event's source

\* the synchronous part of predictCountryOfOrigin, tel.js:86-110: the flags,
\* then the fetch request of run i, which its caller records in flows[i]
\* (fetches, and query: the two values the prompt is built from, tel.js:91)
predictStart(i) ==
  /\ isPredicting' = TRUE
  /\ prediction' = NULL
  /\ statusMessage' = "Predicting country..."
  /\ statusType' = "info"

\* mutant: the error of the write is swallowed and the prediction runs anyway
saveFailed_Swallowed(i) ==
  /\ predictStart(i)
  /\ flows' = [flows EXCEPT ![i].pc = "awaitFetch",
                 ![i].write = IF @ = "pending" THEN "failed" ELSE @,
                 ![i].predict = "pending",
                 ![i].fetches = @ + 1,
                 ![i].query = <<flows[i].name, flows[i].phoneNumber>>]
  /\ UNCHANGED <<store, isSubmitting>>

\* mutant: the failure path leaves isSubmitting set
saveFailed_NoFinally(i) ==
  /\ statusMessage' =
       IF flows[i].write = "refused"
         THEN "Firestore or User ID not available for saving."
         ELSE "Failed to save data to cloud. Check console."
  /\ statusType' = "error"
  /\ flows' = [flows EXCEPT ![i].pc = "done",
                 ![i].write = IF @ = "pending" THEN "failed" ELSE @]
  /\ UNCHANGED <<store, isPredicting, prediction, isSubmitting>>

\* saveContactToFirestore throws (tel.js:138 or 157); the catch and the
\* finally of handleSubmit, tel.js:218-224
saveFailed(i) ==
  /\ statusMessage' =
       IF flows[i].write = "refused"
         THEN "Firestore or User ID not available for saving."
         ELSE "Failed to save data to cloud. Check console."
  /\ statusType' = "error"
  /\ isSubmitting' = FALSE
  /\ flows' = [flows EXCEPT ![i].pc = "done",
                 ![i].write = IF @ = "pending" THEN "failed" ELSE @]
  /\ UNCHANGED <<store, isPredicting, prediction>>

\* setDoc resolves and saveContactToFirestore returns the document id
\* (tel.js:153-154); handleSubmit calls predictCountryOfOrigin (tel.js:209)
saveSucceeded(i) ==
  /\ store' = store \cup
       {[docId |-> flows[i].docId, name |-> flows[i].name,
         phoneNumber |-> flows[i].phoneNumber,
         userId |-> setDocCalls[CHOOSE k \in 1..Len(setDocCalls) :
                       setDocCalls[k].docId = flows[i].docId].userId]}
  /\ predictStart(i)
  /\ flows' = [flows EXCEPT ![i].pc = "awaitFetch", ![i].write = "ok",
                 ![i].predict = "pending",
                 ![i].fetches = @ + 1,
                 ![i].query = <<flows[i].name, flows[i].phoneNumber>>]
  /\ UNCHANGED isSubmitting

\* mutant: the failure path clears the form as the success path does
saveSettle_ClearsInputs(i, ok) ==
  /\ i \in 1..Len(flows)
  /\ flows[i].pc = "awaitSave"
  /\ flows[i].write = "refused" => ~ok
  /\ IF ok THEN saveSucceeded(i) /\ UNCHANGED <<name, phoneNumber>>
           ELSE saveFailed(i) /\ name' = <<>> /\ phoneNumber' = <<>>
  /\ UNCHANGED <<submittedData, db, userId, isAuthReady>>
  /\ UNCHANGED <<authVars, setDocCalls, submitCount, dispatched, pureVars>>

\* the awaited saveContactToFirestore of run i settles; a refused save
\* (tel.js:137-139) can only fail
saveSettle(i, ok) ==
  /\ i \in 1..Len(flows)
  /\ flows[i].pc = "awaitSave"
  /\ flows[i].write = "refused" => ~ok
  /\ IF ok THEN saveSucceeded(i) ELSE saveFailed(i)
  /\ UNCHANGED <<name, phoneNumber, submittedData, db, userId, isAuthReady>>
  /\ UNCHANGED <<authVars, setDocCalls, submitCount, dispatched, pureVars>>

\* the try of predictCountryOfOrigin runs to its end with response r: the
\* fetch resolved, the status is 2xx and response.json() resolved
\* (tel.js:106-116)
predicted(r) == r.net /\ r.ok /\ r.json

\* mutant: the candidate text is stored without the fallback
fetchSettle_NoFallback(i, r) ==
  /\ i \in 1..Len(flows)
  /\ flows[i].pc = "awaitFetch"
  /\ IF predicted(r) THEN
       /\ prediction' = r.text
       /\ statusMessage' = "Prediction complete!"
       /\ statusType' = "success"
     ELSE
       /\ statusMessage' =
            "Failed to predict country. Check console for API errors."
       /\ statusType' = "error"
       /\ UNCHANGED prediction
  /\ isPredicting' = FALSE
  /\ flows' = [flows EXCEPT ![i].pc = "awaitPredict",
                 ![i].predict = IF predicted(r) THEN "ok" ELSE "failed",
                 ![i].response = r]
  /\ UNCHANGED <<name, phoneNumber, submittedData, isSubmitting, db, userId,
                 isAuthReady>>
  /\ UNCHANGED <<authVars, setDocCalls, store, submitCount, dispatched,
                 pureVars>>

\* mutant: isPredicting is cleared at the end of the try, not in a finally
fetchSettle_NoFinally(i, r) ==
  /\ i \in 1..Len(flows)
  /\ flows[i].pc = "awaitFetch"
  /\ IF predicted(r) THEN
       /\ prediction' = IF r.text # NULL /\ r.text # "" THEN r.text
                        ELSE FallbackText
       /\ statusMessage' = "Prediction complete!"
       /\ statusType' = "success"
       /\ isPredicting' = FALSE
     ELSE
       /\ statusMessage' =
            "Failed to predict country. Check console for API errors."
       /\ statusType' = "error"
       /\ UNCHANGED <<prediction, isPredicting>>
  /\ flows' = [flows EXCEPT ![i].pc = "awaitPredict",
                 ![i].predict = IF predicted(r) THEN "ok" ELSE "failed",
                 ![i].response = r]
  /\ UNCHANGED <<name, phoneNumber, submittedData, isSubmitting, db, userId,
                 isAuthReady>>
  /\ UNCHANGED <<authVars, setDocCalls, store, submitCount, dispatched,
                 pureVars>>

\* mutant: a failed request is issued once more
fetchSettle_Retry(i, r) ==
  /\ i \in 1..Len(flows)
  /\ flows[i].pc = "awaitFetch"
  /\ IF predicted(r) THEN
       /\ prediction' = IF r.text # NULL /\ r.text # "" THEN r.text
                        ELSE FallbackText
       /\ statusMessage' = "Prediction complete!"
       /\ statusType' = "success"
       /\ isPredicting' = FALSE
       /\ flows' = [flows EXCEPT ![i].pc = "awaitPredict",
                      ![i].predict = "ok", ![i].response = r]
     ELSE IF flows[i].fetches < 2 THEN
       /\ flows' = [flows EXCEPT ![i].fetches = @ + 1]
       /\ UNCHANGED <<prediction, statusMessage, statusType, isPredicting>>
     ELSE
       /\ statusMessage' =
            "Failed to predict country. Check console for API errors."
       /\ statusType' = "error"
       /\ isPredicting' = FALSE
       /\ flows' = [flows EXCEPT ![i].pc = "awaitPredict",
                      ![i].predict = "failed", ![i].response = r]
       /\ UNCHANGED prediction
  /\ UNCHANGED <<name, phoneNumber, submittedData, isSubmitting, db, userId,
                 isAuthReady>>
  /\ UNCHANGED <<authVars, setDocCalls, store, submitCount, dispatched,
                 pureVars>>

\* the fetch of predictCountryOfOrigin settles with response r: the rest of
\* its try, its catch and its finally, tel.js:112-129
fetchSettle(i, r) ==
  /\ i \in 1..Len(flows)
  /\ flows[i].pc = "awaitFetch"
  /\ IF predicted(r) THEN
       /\ prediction' = IF r.text # NULL /\ r.text # "" THEN r.text
                        ELSE FallbackText
       /\ statusMessage' = "Prediction complete!"
       /\ statusType' = "success"
     ELSE
       /\ statusMessage' =
            "Failed to predict country. Check console for API errors."
       /\ statusType' = "error"
       /\ UNCHANGED prediction
  /\ isPredicting' = FALSE
  /\ flows' = [flows EXCEPT ![i].pc = "awaitPredict",
                 ![i].predict = IF predicted(r) THEN "ok" ELSE "failed",
                 ![i].response = r]
  /\ UNCHANGED <<name, phoneNumber, submittedData, isSubmitting, db, userId,
                 isAuthReady>>
  /\ UNCHANGED <<authVars, setDocCalls, store, submitCount, dispatched,
                 pureVars>>

\* mutant: the summary shows the name as typed, not as saved
submitResume_UntrimmedName(i) ==
  /\ i \in 1..Len(flows)
  /\ flows[i].pc = "awaitPredict"
  /\ submittedData' = [name |-> name,
                       phoneNumber |-> flows[i].phoneNumber,
                       docId |-> flows[i].docId]
  /\ name' = <<>>
  /\ phoneNumber' = <<>>
  /\ statusMessage' = "Data saved and prediction requested!"
  /\ statusType' = "success"
  /\ isSubmitting' = FALSE
  /\ flows' = [flows EXCEPT ![i].pc = "done", ![i].response = NoResponse]
  /\ UNCHANGED <<db, userId, isAuthReady, prediction, isPredicting>>
  /\ UNCHANGED <<authVars, setDocCalls, store, submitCount, dispatched,
                 pureVars>>

\* mutant: the summary is shown only when the prediction succeeded
submitResume_SummaryOnlyOnSuccess(i) ==
  /\ i \in 1..Len(flows)
  /\ flows[i].pc = "awaitPredict"
  /\ submittedData' = IF flows[i].predict = "ok"
                        THEN [name |-> flows[i].name,
                              phoneNumber |-> flows[i].phoneNumber,
                              docId |-> flows[i].docId]
                        ELSE submittedData
  /\ name' = <<>>
  /\ phoneNumber' = <<>>
  /\ statusMessage' = "Data saved and prediction requested!"
  /\ statusType' = "success"
  /\ isSubmitting' = FALSE
  /\ flows' = [flows EXCEPT ![i].pc = "done", ![i].response = NoResponse]
  /\ UNCHANGED <<db, userId, isAuthReady, prediction, isPredicting>>
  /\ UNCHANGED <<authVars, setDocCalls, store, submitCount, dispatched,
                 pureVars>>

\* handleSubmit resumes after predictCountryOfOrigin has returned,
\* tel.js:212-216 and the finally of tel.js:223
submitResume(i) ==
  /\ i \in 1..Len(flows)
  /\ flows[i].pc = "awaitPredict"
  /\ submittedData' = [name |-> flows[i].name,
                       phoneNumber |-> flows[i].phoneNumber,
                       docId |-> flows[i].docId]
  /\ name' = <<>>
  /\ phoneNumber' = <<>>
  /\ statusMessage' = "Data saved and prediction requested!"
  /\ statusType' = "success"
  /\ isSubmitting' = FALSE
  /\ flows' = [flows EXCEPT ![i].pc = "done", ![i].response = NoResponse]
  /\ UNCHANGED <<db, userId, isAuthReady, prediction, isPredicting>>
  /\ UNCHANGED <<authVars, setDocCalls, store, submitCount, dispatched,
                 pureVars>>

\* a submit event raised by the enabled submit button; the browser raises it
\* only when both `required` inputs (tel.js:241) have a value
ClickSubmit ==
  /\ submitCount < MaxSubmits
  /\ ~submitDisabled
  /\ name # <<>> /\ phoneNumber # <<>>
  /\ handleSubmit
  /\ UNCHANGED dispatched

\* a submit event delivered to the form's onSubmit (tel.js:327) whatever the
\* state of the controls
DispatchSubmit ==
  /\ submitCount < MaxSubmits
  /\ dispatched < MaxDispatch
  /\ handleSubmit
  /\ dispatched' = dispatched + 1

----------------------------------------------------------------------------
MountOutcomes == {"ok", "throwBeforeSetDb", "throwAfterSetDb"}

\* the session bootstrapper and the identity service's answers to it
Bootstrap ==
  \/ \E outcome \in MountOutcomes : Mount(outcome)
  \/ \E user \in {NULL, PersistedUid} : InitialAuthState(user)
  \/ SignInResolve
  \/ SignInReject

\* typing, and the completion of the calls a submission has issued
Form ==
  \/ \E value \in NameInputs : ChangeName(value)
  \/ \E value \in PhoneInputs : ChangePhone(value)
  \/ \E i \in 1..MaxSubmits, ok \in BOOLEAN : saveSettle(i, ok)
  \/ \E i \in 1..MaxSubmits, r \in Responses : fetchSettle(i, r)
  \/ \E i \in 1..MaxSubmits : submitResume(i)

\* validatePhoneNumber applied to a probe string, tel.js:168-171
Validate ==
  /\ verdict = "none"
  /\ verdict' = IF validatePhoneNumber(probe) THEN "true" ELSE "false"
  /\ UNCHANGED <<progVars, authVars, histVars, probe>>

\* the component before its mount, and any probe string
InitPhone ==
  /\ name = <<>> /\ phoneNumber = <<>>
  /\ submittedData = NullData
  /\ isSubmitting = FALSE
  /\ db = NULL /\ userId = NULL /\ isAuthReady = FALSE
  /\ prediction = NULL /\ isPredicting = FALSE
  /\ statusMessage = NULL /\ statusType = NULL
  /\ initialAuthToken = NULL
  /\ phase = "unmounted"
  /\ authUser = NULL
  /\ pendingSignIn = 0 /\ anonCount = 0 /\ signOuts = 0
  /\ signInFailed = FALSE
  /\ flows = <<>> /\ setDocCalls = <<>>
  /\ store = {}
  /\ submitCount = 0
  /\ dispatched = 0
  /\ probe \in ProbeStrings
  /\ verdict = "none"

NextPhone == Validate

\* validatePhoneNumber on its own, over every probe string
SpecPhone == InitPhone /\ [][NextPhone]_vars

\* the form is driven through its controls, and the identity service may
\* lose its user
Next == Bootstrap \/ SignedOut \/ Form \/ ClickSubmit

Spec == Init /\ [][Next]_vars

\* the identity service keeps its user, and submit events can also reach the
\* handler whatever the state of the controls
NextDispatch == Bootstrap \/ Form \/ ClickSubmit \/ DispatchSubmit

SpecDispatch == Init /\ [][NextDispatch]_vars

\* the code's scheduling: an effect, a notification, a promise that settles
\* or a resumption that is due is eventually run; the user and the identity
\* service's loss of its user are under no obligation
Fairness ==
  /\ WF_vars(\E outcome \in MountOutcomes : Mount(outcome))
  /\ WF_vars(\E user \in {NULL, PersistedUid} : InitialAuthState(user))
  /\ WF_vars(SignInResolve \/ SignInReject)
  /\ WF_vars(\E i \in 1..MaxSubmits, ok \in BOOLEAN : saveSettle(i, ok))
  /\ WF_vars(\E i \in 1..MaxSubmits, r \in Responses : fetchSettle(i, r))
  /\ WF_vars(\E i \in 1..MaxSubmits : submitResume(i))

FairSpec == Spec /\ Fairness

----------------------------------------------------------------------------
(* Vocabulary of the properties *)

InFlight == {i \in 1..Len(flows) : flows[i].pc # "done"}

Idle == ~isSubmitting /\ ~isPredicting

WriteCount == Len(setDocCalls)

FetchCount == Cardinality({i \in 1..Len(flows) : flows[i].predict # "none"})

IsBlank(s) == \A k \in 1..Len(s) : s[k] \in WhiteSpace

IsPhone(s) ==
  /\ Len(s) \in MinPhoneDigits..MaxPhoneDigits
  /\ \A k \in 1..Len(s) : s[k] \in Digits

\* this step is a run of handleSubmit
SubmitEvent == submitCount' = submitCount + 1

\* this step ends run i of handleSubmit
Ends(i) == i \in InFlight /\ flows'[i].pc = "done"

DigitCount(s) == Cardinality({k \in 1..Len(s) : s[k] \in Digits})

Stored(i) == \E d \in store : d.docId = flows[i].docId

\* run i is back from predictCountryOfOrigin, whose request got response r
Returned(i, r) == flows[i].pc = "awaitPredict" /\ flows[i].response = r

\* what is shown for response r when its body is used
Shown(r) ==
  IF r.text # NULL /\ r.text # "" THEN r.text
  ELSE "Could not determine country of origin."

\* the setDoc requests issued by run i
WritesOf(i) == {k \in 1..Len(setDocCalls) : setDocCalls[k].flow = i}

----------------------------------------------------------------------------
(* C1: every setDoc request was issued with a session identity and a store
   handle present, and carries a record that passed field validation: a
   non-empty trimmed name and a phone number of 7 to 15 digits. *)
C1_WriteNeedsIdentityAndValidRecord ==
  \A k \in 1..Len(setDocCalls) :
    /\ setDocCalls[k].userId # NULL
    /\ setDocCalls[k].db # NULL
    /\ setDocCalls[k].name # <<>>
    /\ ~IsBlank(setDocCalls[k].name)
    /\ IsPhone(setDocCalls[k].phoneNumber)

C1_Witness ==
  /\ Len(setDocCalls) = 2
  /\ setDocCalls[1].userId # setDocCalls[2].userId

(* C2: a run of handleSubmit has issued its inference request only if its
   store write completed successfully (the document is in the store); a run
   whose write failed or was refused has issued no inference request. *)
C2_PredictOnlyAfterSuccessfulWrite ==
  \A i \in 1..Len(flows) :
    /\ flows[i].predict # "none" => flows[i].write = "ok" /\ Stored(i)
    /\ flows[i].write \in {"failed", "refused"} => flows[i].predict = "none"

C2_Witness ==
  /\ \E i \in 1..Len(flows) : flows[i].predict = "pending"
  /\ \E j \in 1..Len(flows) : flows[j].write = "failed" /\ flows[j].pc = "done"

(* C3: the step that ends a run of handleSubmit whose store write succeeded
   and whose inference request failed leaves the machine Idle with the
   status kind error. *)
C3_FailedPredictionEndsInError ==
  [][\A i \in 1..Len(flows) :
       Ends(i) /\ flows[i].predict = "failed"
         => Idle' /\ statusType' = "error"]_vars

(* C4: a written record is never removed from the store, and the step that
   ends a run whose inference request failed leaves the machine Idle with
   submittedData holding the saved name, phone number and document id. *)
C4_FailedPredictionKeepsRecord ==
  /\ [](\A i \in 1..Len(flows) : flows[i].write = "ok" => Stored(i))
  /\ [][\A i \in 1..Len(flows) :
          Ends(i) /\ flows[i].predict = "failed"
            => /\ Idle'
               /\ submittedData' = [name |-> flows[i].name,
                                    phoneNumber |-> flows[i].phoneNumber,
                                    docId |-> flows[i].docId]
               /\ IsPhone(submittedData'.phoneNumber)
               /\ \E d \in store' :
                    /\ d.docId = submittedData'.docId
                    /\ d.name = submittedData'.name
                    /\ d.phoneNumber = submittedData'.phoneNumber]_vars

C4_Witness ==
  \E i \in 1..Len(flows) :
    /\ flows[i].pc = "done" /\ flows[i].predict = "failed"
    /\ submittedData.docId = flows[i].docId
    /\ Idle

(* C5 as stated: a submit event rejected because the trimmed name is empty,
   the phone number fails validation or the session is not yet ready leaves
   the status kind error. *)
C5_RejectedSubmitIsError ==
  [][SubmitEvent /\ (IsBlank(name) \/ ~IsPhone(phoneNumber) \/ ~isAuthReady)
       => statusType' = "error"]_vars

(* C5 amended: a submit event handled while the session is ready and
   rejected for a blank name or an invalid phone number leaves the status
   kind error; a submit event handled while the session is not yet ready is
   rejected with the status kind info, whatever the fields hold. *)
C5_RejectedSubmitStatus ==
  [][SubmitEvent =>
       /\ isAuthReady /\ (IsBlank(name) \/ ~IsPhone(phoneNumber))
            => statusType' = "error" /\ flows' = flows
       /\ ~isAuthReady
            => statusType' = "info" /\ flows' = flows]_vars

C5_Witness ==
  /\ submitCount > 0 /\ flows = <<>>
  /\ ~isAuthReady
  /\ statusType = "info"

(* C6: a submit event with a blank name, an invalid phone number or a
   not-ready session starts no run and issues no network call: the numbers
   of store writes and of inference requests, the store, isSubmitting and
   isPredicting are unchanged by it, so an Idle machine stays Idle. *)
C6_RejectedSubmitIssuesNothing ==
  [][SubmitEvent /\ (IsBlank(name) \/ ~IsPhone(phoneNumber) \/ ~isAuthReady)
       => /\ WriteCount' = WriteCount
          /\ FetchCount' = FetchCount
          /\ store' = store
          /\ flows' = flows
          /\ isSubmitting' = isSubmitting /\ isPredicting' = isPredicting
          /\ Idle => Idle']_vars

C6_Witness ==
  /\ submitCount > 0 /\ flows = <<>> /\ WriteCount = 0 /\ FetchCount = 0
  /\ isAuthReady /\ Idle
  /\ statusType = "error"
  /\ statusMessage =
       "Please enter a valid name and phone number (7-15 digits only)."

(* C7: once a sign-in attempt of the bootstrapper has failed, the session is
   eventually marked ready. *)
C7_FailedSignInStillUnblocks == signInFailed ~> isAuthReady

(* C8: at most one run of handleSubmit is in flight; while one is, the
   machine is not Idle and the submit control is disabled; a store write is
   pending for at most one run. *)
C8_OneSubmissionInFlight ==
  /\ Cardinality(InFlight) <= 1
  /\ InFlight # {} => ~Idle /\ submitDisabled
  /\ Cardinality({i \in 1..Len(flows) : flows[i].write = "pending"}) <= 1

C8_Witness ==
  /\ Len(flows) = 2
  /\ flows[1].pc = "done"
  /\ flows[2].pc = "awaitSave" /\ flows[2].write = "pending"

(* C9: when every issued call is eventually settled, a machine that is not
   Idle, or has a run in flight, eventually is Idle with no run in flight. *)
C9_SubmissionReturnsToIdle ==
  (~Idle \/ InFlight # {}) ~> (Idle /\ InFlight = {})

C9_Witness ==
  /\ Idle /\ InFlight = {}
  /\ \E i \in 1..Len(flows) : flows[i].write = "failed"
  /\ \E i \in 1..Len(flows) : flows[i].predict = "failed"

(* C10 as stated: once userId is non-null no step changes it. *)
C10_IdentityNeverChanges ==
  [][userId # NULL => userId' = userId]_vars

(* C10 amended: once userId is non-null it is never cleared, and no step of
   the form or of the submission flow changes it; it changes only when the
   identity service notifies a new user, and then it becomes that user. *)
C10_IdentityChangesOnlyOnNotification ==
  [][/\ userId # NULL => userId' # NULL
     /\ userId' # userId => userId' = authUser' /\ authUser' # authUser
     /\ (SubmitEvent \/ flows' # flows \/ name' # name
           \/ phoneNumber' # phoneNumber) => userId' = userId]_vars

C10_Witness ==
  /\ signOuts > 0
  /\ userId # NULL
  /\ userId = authUser
  /\ \E k \in 1..Len(setDocCalls) : setDocCalls[k].userId # userId

(* C11 as stated: whenever the session is marked ready, a session identity
   is present. *)
C11_ReadyImpliesIdentity == isAuthReady => userId # NULL

(* C11 amended: whenever the session is marked ready, a session identity is
   present or the initialisation of the platform client has failed; in that
   case there is no identity, the submit control is enabled, and every run
   of handleSubmit is refused by saveContactToFirestore before any write. *)
C11_ReadyImpliesIdentityOrInitFailure ==
  /\ isAuthReady => userId # NULL \/ phase = "initFailed"
  /\ phase = "initFailed" =>
       /\ isAuthReady /\ userId = NULL
       /\ setDocCalls = <<>>
       /\ \A i \in 1..Len(flows) : flows[i].write = "refused"

C11_Witness ==
  /\ phase = "initFailed" /\ isAuthReady /\ userId = NULL
  /\ db # NULL
  /\ \E i \in 1..Len(flows) : flows[i].write = "refused" /\ flows[i].pc = "done"

(* C12: a setDoc request carries the trimmed name and the phone number of
   the form, tagged with the identity current when it is issued; and the
   step that ends a run whose write and inference request both succeeded
   leaves the machine Idle with status kind success, both input fields
   empty and submittedData equal to {trimmed name, phone number, docId of
   the write}; the store holds exactly that name and phone number under that
   docId, tagged with the identity of the request, and the inference request
   was built from the same two values. *)
C12_SuccessfulSubmission ==
  /\ [][SubmitEvent /\ Len(setDocCalls') > Len(setDocCalls) =>
          LET c == setDocCalls'[Len(setDocCalls')]
          IN /\ c.name = trim(name) /\ c.phoneNumber = phoneNumber
             /\ c.userId = userId /\ c.userId # NULL]_vars
  /\ [][\A i \in 1..Len(flows) :
          Ends(i) /\ flows[i].predict = "ok" =>
            /\ Idle'
            /\ statusType' = "success"
            /\ name' = <<>> /\ phoneNumber' = <<>>
            /\ submittedData' = [name |-> trim(name),
                                 phoneNumber |-> phoneNumber,
                                 docId |-> flows[i].docId]
            /\ submittedData'.docId # NULL
            /\ flows[i].query = <<trim(name), phoneNumber>>
            /\ \E k \in 1..Len(setDocCalls) :
                 /\ setDocCalls[k].flow = i
                 /\ setDocCalls[k].docId = flows[i].docId
                 /\ {d \in store' : d.docId = flows[i].docId}
                      = {[docId |-> flows[i].docId, name |-> trim(name),
                          phoneNumber |-> phoneNumber,
                          userId |-> setDocCalls[k].userId]}]_vars

C12_Witness ==
  /\ Idle /\ statusType = "success"
  /\ name = <<>> /\ phoneNumber = <<>>
  /\ prediction = "France"
  /\ \E i \in 1..Len(flows) :
       /\ flows[i].pc = "done" /\ flows[i].predict = "ok"
       /\ submittedData = [name |-> <<"J">>, phoneNumber |-> Rep("4", 7),
                           docId |-> flows[i].docId]

(* C13 as stated: every accepted submission (a run of handleSubmit past the
   validation) has issued exactly one setDoc request and at most one
   inference request. *)
C13_ExactlyOneWrite ==
  \A i \in 1..Len(flows) :
    /\ Cardinality(WritesOf(i)) = 1
    /\ flows[i].fetches <= 1

(* C13 amended: every accepted submission has issued at most one setDoc
   request and at most one inference request: no setDoc request when the
   save was refused for a missing identity or store handle and exactly one
   otherwise, and exactly one inference request once its write has succeeded
   and none before; a run whose write or inference request has failed has
   still issued one of each at most. *)
C13_SingleAttempt ==
  \A i \in 1..Len(flows) :
    /\ Cardinality(WritesOf(i)) <= 1
    /\ Cardinality(WritesOf(i)) = 1 <=> flows[i].write # "refused"
    /\ flows[i].fetches <= 1
    /\ flows[i].fetches = 1 <=> flows[i].predict # "none"
    /\ flows[i].predict # "none" => flows[i].write = "ok"

C13_Witness ==
  /\ Len(flows) = 2
  /\ flows[1].pc = "done" /\ flows[1].write = "failed"
  /\ Cardinality(WritesOf(1)) = 1 /\ flows[1].fetches = 0
  /\ flows[2].pc = "done" /\ flows[2].predict = "failed"
  /\ Cardinality(WritesOf(2)) = 1 /\ flows[2].fetches = 1

(* C14: the step that ends a run of handleSubmit whose store write failed,
   or whose save was refused for a missing identity or store handle, leaves
   the machine Idle with status kind error, submittedData and prediction
   null, and the name and phone inputs holding what they held before the
   step, which is what the user entered for this submission; such a run has
   issued no inference request. *)
C14_FailedWriteKeepsInputs ==
  [][\A i \in 1..Len(flows) :
       Ends(i) /\ flows[i].pc = "awaitSave" =>
         /\ flows'[i].write \in {"failed", "refused"}
         /\ flows'[i].predict = "none"
         /\ Idle'
         /\ statusType' = "error"
         /\ submittedData' = NullData
         /\ prediction' = NULL
         /\ name' = name /\ phoneNumber' = phoneNumber
         /\ trim(name') = flows[i].name
         /\ phoneNumber' = flows[i].phoneNumber]_vars

C14_Witness ==
  /\ Idle /\ statusType = "error"
  /\ submittedData = NullData /\ prediction = NULL
  /\ name = <<" ", "J", " ">> /\ phoneNumber = Rep("4", 7)
  /\ Len(flows) = 2
  /\ flows[1].pc = "done" /\ flows[1].predict = "ok"
  /\ flows[2].pc = "done" /\ flows[2].write \in {"failed", "refused"}

(* C15: for every probe string of digits and non-digits,
   validatePhoneNumber answers true if and only if every character of the
   string is a digit and the string has between 7 and 15 characters. *)
C15_ValidatePhoneNumber ==
  verdict # "none" =>
    (verdict = "true" <=>
       /\ DigitCount(probe) = Len(probe)
       /\ MinPhoneDigits <= Len(probe) /\ Len(probe) <= MaxPhoneDigits)

C15_Witness ==
  /\ verdict = "true"
  /\ Len(probe) = MaxPhoneDigits
  /\ DigitCount(probe) = MaxPhoneDigits

(* C16: in every reachable state the phoneNumber state holds digit
   characters only; and a submit event handled while the session is ready
   with a non-blank name, if it is rejected, finds a phone number whose
   length is outside 7..15: the length is the only reason the phone check
   can have. *)
C16_PhoneNumberIsDigits ==
  /\ [](DigitCount(phoneNumber) = Len(phoneNumber))
  /\ [][SubmitEvent /\ isAuthReady /\ ~IsBlank(name) /\ flows' = flows =>
          /\ statusType' = "error"
          /\ \/ Len(phoneNumber) < MinPhoneDigits
             \/ Len(phoneNumber) > MaxPhoneDigits]_vars

C16_Witness ==
  /\ isAuthReady /\ ~IsBlank(name)
  /\ phoneNumber = Rep("4", MinPhoneDigits - 1)
  /\ submitCount = 2 /\ Len(flows) = 1
  /\ store # {}
  /\ statusMessage =
       "Please enter a valid name and phone number (7-15 digits only)."

(* C17: every run of handleSubmit, accepted or rejected, leaves
   submittedData and prediction null at its first suspension or return; in
   particular a submit event that starts no run (rejected for invalid input
   or a session that is not ready) removes the summary and the prediction of
   the previous submission. *)
C17_SubmitResetsDisplay ==
  [][SubmitEvent =>
       /\ submittedData' = NullData /\ prediction' = NULL
       /\ flows' = flows /\ submittedData # NullData =>
            submittedData' # submittedData]_vars

C17_Witness ==
  /\ submitCount = 2 /\ Len(flows) = 1
  /\ flows[1].pc = "done" /\ flows[1].predict = "ok"
  /\ submittedData = NullData /\ prediction = NULL
  /\ Idle /\ statusType = "error"

(* C18: in every state reached through the form's controls isPredicting
   implies isSubmitting; isPredicting is set only inside a run of
   handleSubmit that is in flight, and the step that clears isSubmitting
   finds isPredicting already cleared. *)
C18_PredictingInsideSubmitting ==
  /\ [](isPredicting => isSubmitting /\ InFlight # {})
  /\ [][~isPredicting /\ isPredicting' =>
          isSubmitting /\ isSubmitting' /\ InFlight # {}]_vars
  /\ [][isSubmitting /\ ~isSubmitting' =>
          ~isPredicting /\ ~isPredicting']_vars

C18_Witness ==
  \E i \in 1..Len(flows) :
    /\ flows[i].pc = "awaitPredict" /\ flows[i].predict = "failed"
    /\ isSubmitting /\ ~isPredicting

(* C19 as stated: when predictCountryOfOrigin has returned, prediction is
   the first candidate's text, or the fallback string when that text is
   absent or empty, if the request got a 2xx response, and null if the
   request failed (network failure or non-2xx). *)
C19_PredictionAfter2xx ==
  \A i \in 1..Len(flows) : \A r \in Responses :
    Returned(i, r) =>
      /\ r.net /\ r.ok => prediction # NULL /\ prediction = Shown(r)
      /\ ~(r.net /\ r.ok) => prediction = NULL

(* C19 amended: when predictCountryOfOrigin has returned, prediction is the
   first candidate's text, or the fallback string when that text is absent
   or empty, if the request got a 2xx response whose body was parsed, and
   null if the request failed: network failure, non-2xx, or a 2xx body
   that could not be parsed; the rest of handleSubmit leaves it as it is. *)
C19_PredictionAfterParsed2xx ==
  /\ [](\A i \in 1..Len(flows) : \A r \in Responses :
          Returned(i, r) =>
            /\ r.net /\ r.ok /\ r.json =>
                 prediction # NULL /\ prediction = Shown(r)
            /\ ~(r.net /\ r.ok /\ r.json) => prediction = NULL)
  /\ [][\A i \in 1..Len(flows) :
          Ends(i) /\ flows[i].pc = "awaitPredict" =>
            prediction' = prediction]_vars

C19_Witness ==
  \E i \in 1..Len(flows) :
    /\ flows[i].pc = "awaitPredict"
    /\ flows[i].response.json /\ flows[i].response.text = NULL
    /\ prediction = "Could not determine country of origin."
    /\ ~isPredicting

====
